---- MODULE Spec2Model ----
(***************************************************************************)
(* WebVerse launcher: the application state / reconciler (gui/app_state.py) *)
(* over the runtime store (core/runtime.py), the Docker control layer       *)
(* (core/docker_ops.py), the flag verifier (core/flags.py) and the progress *)
(* store (core/progress_db, described by spec.md section 4.4).              *)
(*                                                                          *)
(* Strings that the code inspects character by character (flags, digests)   *)
(* are sequences of one-character strings.  Python's None is the value None *)
(* for lab ids and Null for timestamps; an Optional object is a sequence of *)
(* length 0 or 1.                                                           *)
(***************************************************************************)
EXTENDS Integers, Sequences, FiniteSets, TLC

\* ---------------------------------------------------------------- bounds
\* number of user operations in one history (each one happens at its own time)
MaxClock == 2
\* longest string submitted to the flag verifier
MaxSubmitLen == 3
MaxCodes == 2         \* authorization codes issued in one behaviour
MaxIdpNow == 3        \* the identity provider's clock stops here
MaxLoginNow == 5      \* the reports portal's clock (seconds) stops here
MaxHistory == 4       \* pushes stop when the history holds this many entries
MaxXpStep == 1       \* xp is sampled this far on either side of every rank floor

\* ------------------------------------------------------------- constants
None == "None"
Null == 0

\* lab ids the user interface may pass; "ghost" is in no registry scan
Ids == {"sqli-101", "nohash", "ghost"}
NoteTexts == {"x", "y"}

Whitespace == {" "}
\* submitted flags: nothing, blanks, the flag "a" of lab sqli-101 bare and
\* with blanks before, after and around it, the same letter in the other
\* case, and longer wrong flags
Flags == { <<>>, <<" ">>, <<" ", " ">>,
           <<"a">>, <<" ", "a">>, <<"a", " ">>, <<" ", "a", " ">>,
           <<"A">>, <<" ", "A", " ">>, <<"a", "a">>, <<"a", " ", "a">> }

\* outcomes of one external process call (_run): exit 0 with text on stdout,
\* exit 0 with text on stderr only, exit 0 with no text, non-zero exit,
\* subprocess.TimeoutExpired, FileNotFoundError
RunOutcomes == {"ok_out", "ok_err", "ok_silent", "fail", "timeout", "notfound"}

VARIABLES
    pc,               \* position of the process: off, init, labs, docker, ready
    labs,             \* AppState._labs
    running_lab_id,   \* AppState._running_lab_id
    docker_text,      \* AppState._docker_text
    docker_kind,      \* AppState._docker_kind
    progress_cache,   \* AppState._progress_cache
    progress_dirty,   \* AppState._progress_dirty
    summary_cache,    \* AppState._summary_cache
    summary_dirty,    \* AppState._summary_dirty
    notes_cache,      \* AppState._notes_cache
    runtime_file,     \* ~/.webverse/runtime.json
    progress,         \* progress store: lab id -> row
    notes,            \* progress store: lab id -> text
    clock,            \* logical time ("now")
    lastOp,           \* the operation that ran last and its lab id argument
    ret,              \* what the last operation returned
    out,              \* signals emitted and status queries issued by the last operation
    world,            \* the machine around the process: docker binary, compose plugin, containers
    nav,              \* MainWindow: _history, _hist_index, the page the stack shows,
                      \* AppState._selected, the state of the Back and Forward buttons
    idp,              \* LinkLapse: the oauth_codes table, the clock, the requests in flight
    limiter           \* AsterCheck reports: _login_hits, _login_blocked_until, the clock,
                      \* the requests in flight

\* what lies outside AppState and its stores; no AppState operation writes it
others == <<world, nav, idp, limiter>>

\* AppState, its stores and the record of its last operation
appVars == <<pc, labs, running_lab_id, docker_text, docker_kind, progress_cache,
             progress_dirty, summary_cache, summary_dirty, notes_cache,
             runtime_file, progress, notes, clock, lastOp, ret, out>>

vars == <<appVars, others>>

\* ------------------------------------------------------- string helpers
RECURSIVE lstrip(_)
lstrip(s) ==
    IF s # <<>> /\ Head(s) \in Whitespace THEN lstrip(Tail(s)) ELSE s

RECURSIVE rstrip(_)
rstrip(s) ==
    IF s # <<>> /\ s[Len(s)] \in Whitespace THEN rstrip(SubSeq(s, 1, Len(s) - 1)) ELSE s

strip(s) == rstrip(lstrip(s))

lower_char(c) ==
    CASE c = "A" -> "a"
      [] c = "C" -> "c"
      [] c = "E" -> "e"
      [] OTHER -> c

lower(s) == [i \in 1..Len(s) |-> lower_char(s[i])]

\* SHA-256 hex digest.  The hash is modelled as an injective encoding of the
\* submitted characters into lowercase hex digits (no collisions occur among
\* the bounded inputs), so that equal digests mean equal content.
digest_of_char(c) ==
    CASE c = "a" -> <<"c", "a">>
      [] c = "A" -> <<"4", "1">>
      [] OTHER   -> <<"2", "0">>

RECURSIVE sha256_hex(_)
sha256_hex(s) ==
    IF s = <<>> THEN <<"e", "3">> ELSE digest_of_char(Head(s)) \o sha256_hex(Tail(s))

\* variant: the expected hash is trimmed but not lower-cased
flag_matches_sha256_no_lower(submitted_flag, expected_sha256) ==
    IF submitted_flag = <<>> \/ expected_sha256 = <<>> THEN FALSE
    ELSE LET submitted == strip(submitted_flag)
             exp == strip(expected_sha256)
         IN IF submitted = <<>> \/ exp = <<>> THEN FALSE
            ELSE sha256_hex(submitted) = exp

\* core/flags.py flag_matches_sha256
flag_matches_sha256(submitted_flag, expected_sha256) ==
    IF submitted_flag = <<>> \/ expected_sha256 = <<>> THEN FALSE
    ELSE LET submitted == strip(submitted_flag)
             exp == lower(strip(expected_sha256))
         IN IF submitted = <<>> \/ exp = <<>> THEN FALSE
            ELSE sha256_hex(submitted) = exp

\* str.upper on the hex digits that occur
upper_char(c) ==
    CASE c = "a" -> "A"
      [] c = "c" -> "C"
      [] c = "e" -> "E"
      [] OTHER -> c

upper(s) == [i \in 1..Len(s) |-> upper_char(s[i])]

\* the strings a player can submit to the verifier, up to MaxSubmitLen
\* characters: a letter in both cases and the blank
SubmitChars == {"a", "A", " "}
Submissions == UNION {[1..n -> SubmitChars] : n \in 0..MaxSubmitLen}

\* the ways one hash can be written in lab metadata
Spellings(h) == {h, upper(h), <<" ">> \o h, h \o <<" ">>, <<" ">> \o upper(h) \o <<" ">>}

\* expected hashes: none, blank, and the digest of each one- or two-character
\* flag in every spelling
ExpectedHashes ==
    {<<>>, <<" ">>}
       \cup UNION {Spellings(sha256_hex(t)) : t \in {x \in Submissions : Len(x) \in 1..2 /\ strip(x) = x}}

\* ---------------------------------------------------------- lab registry
Lab(id, sha) == [id |-> id, flag_sha256 |-> sha]

\* the lab folders on disk: one lab whose hash (of the flag "a") is stored in
\* upper case with surrounding blanks, one lab with no hash configured
discover_labs ==
    { Lab("sqli-101", <<" ", "C", "A", "E", "3", " ">>), Lab("nohash", <<>>) }

\* variant: the lookup takes a lab whatever its id
find_lab_any(ls, lab_id) ==
    IF ls = {} THEN <<>> ELSE <<CHOOSE x \in ls : TRUE>>

\* next((x for x in labs if x.id == lab_id), None)
find_lab(ls, lab_id) ==
    LET m == {x \in ls : x.id = lab_id}
    IN IF m = {} THEN <<>> ELSE <<CHOOSE x \in m : TRUE>>

\* what a call does: it returns a value, or it raises an exception
Returned(v) == <<"return", v>>
Raised(e) == <<"raise", e>>

\* ---------------------------------------------------------- runtime store
AbsentFile == [kind |-> "absent", running_lab_id |-> None]
RecordFile(lab_id) == [kind |-> "record", running_lab_id |-> lab_id]

\* contents of runtime.json that no write of the application produces: text
\* that is not JSON, JSON that is not an object (such as `[]`), and an object
\* without the running_lab_id key (`{}`)
GarbageFile == [kind |-> "garbage", running_lab_id |-> None]
ArrayFile == [kind |-> "array", running_lab_id |-> None]
EmptyObjectFile == [kind |-> "empty_object", running_lab_id |-> None]
CorruptFiles == {GarbageFile, ArrayFile, EmptyObjectFile}
RuntimeFiles ==
    {AbsentFile} \cup CorruptFiles \cup {RecordFile(i) : i \in Ids \cup {None}}

\* a parsed JSON value: an object (with or without the key) or another value
Dict(has, v) == [json |-> "object", has_key |-> has, running_lab_id |-> v]
JsonArray == [json |-> "array", has_key |-> FALSE, running_lab_id |-> None]

\* the default dict when the file is absent or json.loads raises, else
\* whatever json.loads returned
get_runtime(file) ==
    IF file.kind = "absent" THEN Dict(TRUE, None)
    ELSE IF file.kind = "record" THEN Dict(TRUE, file.running_lab_id)
    ELSE IF file.kind = "empty_object" THEN Dict(FALSE, None)
    ELSE IF file.kind = "array" THEN JsonArray
    ELSE Dict(TRUE, None)

\* get_runtime().get("running_lab_id"): a list has no attribute `get`
get_running_lab(file) ==
    LET data == get_runtime(file)
    IN IF data.json # "object" THEN Raised("AttributeError")
       ELSE Returned(IF data.has_key THEN data.running_lab_id ELSE None)

\* variant: the new value is not written to the file
set_running_lab_no_write(file, lab_id) == file

\* the file after set_running_lab(lab_id); the item assignment raises on a
\* value that is not an object and the file is then left as it was
set_running_lab(file, lab_id) ==
    LET data == get_runtime(file)
    IN IF data.json # "object" THEN file
       ELSE RecordFile([data EXCEPT !.running_lab_id = lab_id].running_lab_id)

\* --------------------------------------------------------- docker control
rc0(p) == p \in {"ok_out", "ok_err", "ok_silent"}

\* (p.stderr or p.stdout or default).strip() of a finished process
detail_of(p, default) ==
    IF p \in {"ok_err", "fail"} THEN "stderr"
    ELSE IF p = "ok_out" THEN "stdout"
    ELSE default

\* variant: no `except FileNotFoundError` clause, a missing binary is reported
\* with the text of the exception like any other error
docker_available_no_cli_clause(p, p2) ==
    IF p = "notfound" THEN <<FALSE, "No such file or directory">>
    ELSE IF p = "timeout" THEN <<FALSE, "timed out">>
    ELSE IF p = "ok_out" THEN <<TRUE, "server version">>
    ELSE IF p2 = "notfound" THEN <<FALSE, "No such file or directory">>
    ELSE IF p2 = "timeout" THEN <<FALSE, "timed out">>
    ELSE IF rc0(p2) THEN <<TRUE, "Installed">>
    ELSE <<FALSE, detail_of(p, "Docker not available")>>

docker_available(p, p2) ==
    IF p = "notfound" THEN <<FALSE, "Docker CLI not found">>
    ELSE IF p = "timeout" THEN <<FALSE, "timed out">>
    ELSE IF p = "ok_out" THEN <<TRUE, "server version">>
    ELSE IF p2 = "notfound" THEN <<FALSE, "Docker CLI not found">>
    ELSE IF p2 = "timeout" THEN <<FALSE, "timed out">>
    ELSE IF rc0(p2) THEN <<TRUE, "Installed">>
    ELSE <<FALSE, detail_of(p, "Docker not available")>>

compose_v2_available(p, p2) ==
    IF p = "notfound" THEN <<FALSE, "Docker CLI not found">>
    ELSE IF p = "timeout" THEN <<FALSE, "timed out">>
    ELSE IF p = "ok_out" THEN <<TRUE, "short version">>
    ELSE IF p2 = "notfound" THEN <<FALSE, "Docker CLI not found">>
    ELSE IF p2 = "timeout" THEN <<FALSE, "timed out">>
    ELSE IF p2 \in {"ok_out", "ok_err"} THEN <<TRUE, "first line">>
    ELSE <<FALSE, detail_of(p, "docker compose not available")>>

compose_has_running(p) ==
    IF p \in {"timeout", "notfound"} THEN <<FALSE, "exception">>
    ELSE IF ~rc0(p) THEN <<FALSE, detail_of(p, "compose ps failed")>>
    ELSE <<p = "ok_out", IF p = "ok_out" THEN "stdout" ELSE "">>

\* subprocess.CompletedProcess; a text is a sequence of characters
Completed(rc, so, se) == [returncode |-> rc, stdout |-> so, stderr |-> se]

\* _run: subprocess.run returns the finished process whatever its exit code,
\* raises FileNotFoundError when the docker binary is missing and
\* TimeoutExpired when the process outlives the timeout
ExitCodes == {0, 1}
run_results(texts) ==
    {Returned(Completed(rc, so, se)) : rc \in ExitCodes, so \in texts, se \in texts}
        \cup {Raised("FileNotFoundError"), Raised("TimeoutExpired")}

DownTexts == {<<>>, <<"d">>, <<"d", "\n">>}
UpTexts == {<<>>, <<"u">>, <<"u", "\n">>}

\* combined = down's text, a newline unless it is empty or ends in one, up's text
join_text(a, b) ==
    (IF a # <<>> /\ a[Len(a)] # "\n" THEN a \o <<"\n">> ELSE a) \o b

\* variant: a failed teardown fails the reset
reset_returncode_any_failure(down, up) ==
    IF down.returncode # 0 THEN down.returncode ELSE up.returncode

\* rc = up.returncode
reset_returncode(down, up) == up.returncode

\* down and up are what the two _run calls do; an exception of either call
\* leaves compose_reset (it has no try/except), and up is not started when
\* down raised
compose_reset(down, up) ==
    IF down[1] = "raise" THEN down
    ELSE IF up[1] = "raise" THEN up
    ELSE Returned(Completed(reset_returncode(down[2], up[2]),
                            join_text(down[2].stdout, up[2].stdout),
                            join_text(down[2].stderr, up[2].stderr)))

\* `return _run(...)`: the finished process, or the exception _run raised
compose_up(r) == r
compose_down(r) == r
compose_ps(r) == r
compose_logs(r) == r
compose_restart(r) == r

\* what the probes answer while the application runs: the docker binary is
\* present and the engine answers, or the binary is missing; the compose
\* plugin answers, or `docker compose` exits non-zero.  Both calls of one
\* probe meet the same environment.
DockerProbes == {"ok_out", "notfound"}
ComposeProbes == {"ok_out", "fail"}
DockerResults == {docker_available(p, p) : p \in DockerProbes}
ComposeResults == {compose_v2_available(p, p) : p \in ComposeProbes}

\* --------------------------------------------------------- progress store
EmptyRow == [started_at |-> Null, solved_at |-> Null, attempts |-> 0]

db_mark_started(p, lab_id, now) ==
    [p EXCEPT ![lab_id].started_at = IF @ = Null THEN now ELSE @]

db_mark_attempt(p, lab_id) ==
    [p EXCEPT ![lab_id].attempts = @ + 1]

db_mark_solved(p, lab_id, now) ==
    [p EXCEPT ![lab_id].solved_at = IF @ = Null THEN now ELSE @]

db_get_progress_map(p) == p

RECURSIVE sum_attempts(_, _)
sum_attempts(p, S) ==
    IF S = {} THEN 0
    ELSE LET x == CHOOSE y \in S : TRUE
         IN p[x].attempts + sum_attempts(p, S \ {x})

db_get_summary(p) == [attempts |-> sum_attempts(p, DOMAIN p)]

db_get_notes(n, lab_id) == n[lab_id]

db_set_notes(n, lab_id, text) == [n EXCEPT ![lab_id] = text]

\* ------------------------------------------------------------ bookkeeping
NoRet == <<>>
NoOut == [progress_changed |-> 0, labs_changed |-> 0, running_changed |-> 0,
          docker_changed |-> 0, compose_ps |-> 0]
Op(name, lab_id) == [op |-> name, id |-> lab_id]

\* AppState.running()
running(ls, rid) ==
    IF rid = None THEN <<>> ELSE find_lab(ls, rid)

\* ------------------------------------------------------------------ Init
InitApp ==
    /\ pc = "off"
    /\ labs = {}
    /\ running_lab_id = None
    /\ docker_text = <<"Docker: Unknown">>
    /\ docker_kind = "neutral"
    /\ progress_cache = <<>>
    /\ progress_dirty = TRUE
    /\ summary_cache = <<>>
    /\ summary_dirty = TRUE
    /\ notes_cache = <<>>
    /\ runtime_file = AbsentFile
    /\ progress = [i \in Ids |-> EmptyRow]
    /\ notes = [i \in Ids |-> ""]
    /\ clock = 1
    /\ lastOp = Op("none", None)
    /\ ret = NoRet
    /\ out = NoOut

\* a machine with docker and the compose plugin installed and no container up
QuietWorld == [docker |-> "ok_out", compose |-> "ok_out", up |-> {}]

\* MainWindow before its constructor has run: empty history, index -1, the
\* stack on its first page, both buttons disabled
NoWindow == [history |-> <<>>, hist_index |-> 0 - 1, page |-> 0, selected |-> None,
             can_back |-> FALSE, can_fwd |-> FALSE, shown |-> FALSE]

\* the server threads of a lab's web application (Flask serves every request
\* on a thread of its own)
Threads == {"t1", "t2"}

\* LinkLapse after init_db: no code issued, no callback in flight. A code is
\* named by its issue number; issued[code] is the expiry it was issued with.
IdleExchange == [pc |-> "idle", code |-> 0, row |-> <<>>, at |-> 0]
IdpInit == [oauth_codes |-> {}, issued |-> <<>>, now |-> 0,
            req |-> [t \in Threads |-> IdleExchange], grants |-> {}]

\* ">3 POST /login per 1 second -> block IP for 5 seconds"
LOGIN_RATE_WINDOW_SEC == 1
LOGIN_RATE_MAX == 3
LOGIN_BLOCK_SECONDS == 5

\* the reports portal after start: no hit, no block, no login in flight;
\* admitted[ip][s] counts the requests of ip stamped s that passed the limiter,
\* block_started[ip] is the time at which the latest block of ip started
Ips == {"10.0.0.1"}
IdleLogin == [pc |-> "idle", ip |-> "10.0.0.1", now |-> 0]
LimiterInit == [now |-> 0,
                login_hits |-> [ip \in Ips |-> <<>>],
                login_blocked_until |-> [ip \in Ips |-> 0],
                req |-> [t \in Threads |-> IdleLogin],
                admitted |-> [ip \in Ips |-> [s \in 0..(MaxLoginNow + 1) |-> 0]],
                block_started |-> [ip \in Ips |-> 0 - LOGIN_BLOCK_SECONDS],
                last |-> "none"]

Init ==
    /\ InitApp
    /\ world = QuietWorld
    /\ nav = NoWindow
    /\ idp = IdpInit
    /\ limiter = LimiterInit

\* --------------------------------------------------------------- actions
\* AppState.__init__, the field initialisers
\* variant: the constructor goes on to the probes without calling refresh_labs
construct_skip_registry ==
    /\ pc = "off"
    /\ get_running_lab(runtime_file)[1] = "return"
    /\ pc' = "labs"
    /\ labs' = {}
    /\ running_lab_id' = get_running_lab(runtime_file)[2]
    /\ docker_text' = <<"Docker: Unknown">>
    /\ docker_kind' = "neutral"
    /\ progress_cache' = <<>>
    /\ progress_dirty' = TRUE
    /\ summary_cache' = <<>>
    /\ summary_dirty' = TRUE
    /\ notes_cache' = <<>>
    /\ lastOp' = Op("__init__", None)
    /\ UNCHANGED others
    /\ ret' = NoRet
    /\ out' = NoOut
    /\ UNCHANGED <<runtime_file, progress, notes, clock>>

construct ==
    /\ pc = "off"
    /\ get_running_lab(runtime_file)[1] = "return"
    /\ pc' = "init"
    /\ labs' = {}
    /\ running_lab_id' = get_running_lab(runtime_file)[2]
    /\ docker_text' = <<"Docker: Unknown">>
    /\ docker_kind' = "neutral"
    /\ progress_cache' = <<>>
    /\ progress_dirty' = TRUE
    /\ summary_cache' = <<>>
    /\ summary_dirty' = TRUE
    /\ notes_cache' = <<>>
    /\ lastOp' = Op("__init__", None)
    /\ UNCHANGED others
    /\ ret' = NoRet
    /\ out' = NoOut
    /\ UNCHANGED <<runtime_file, progress, notes, clock>>

refresh_labs ==
    /\ pc = "init"
    /\ pc' = "labs"
    /\ labs' = discover_labs
    /\ lastOp' = Op("refresh_labs", None)
    /\ UNCHANGED others
    /\ ret' = NoRet
    /\ out' = [NoOut EXCEPT !.labs_changed = 1]
    /\ UNCHANGED <<running_lab_id, docker_text, docker_kind, progress_cache,
                   progress_dirty, summary_cache, summary_dirty, notes_cache,
                   runtime_file, progress, notes, clock>>

\* variant: a reachable engine is reported as "ok" whatever compose answers
docker_status_engine_only(d, c) ==
    IF d[1]
    THEN [text |-> <<"Docker: ", d[2], " Compose v2: ", c[2]>>, kind |-> "ok"]
    ELSE [text |-> <<"Docker: Unavailable ", d[2]>>, kind |-> "bad"]

\* the status text and kind refresh_docker derives from the two answers
docker_status(d, c) ==
    IF d[1] /\ c[1]
    THEN [text |-> <<"Docker: ", d[2], " Compose v2: ", c[2]>>, kind |-> "ok"]
    ELSE IF d[1] /\ ~c[1]
    THEN [text |-> <<"Docker: ", d[2], " Compose v2: Unavailable ", c[2]>>, kind |-> "bad"]
    ELSE [text |-> <<"Docker: Unavailable ", d[2]>>, kind |-> "bad"]

refresh_docker(d, c) ==
    /\ pc \in {"labs", "ready"}
    /\ pc' = IF pc = "labs" THEN "docker" ELSE pc
    /\ docker_text' = docker_status(d, c).text
    /\ docker_kind' = docker_status(d, c).kind
    /\ lastOp' = Op("refresh_docker", None)
    /\ UNCHANGED others
    /\ ret' = NoRet
    /\ out' = [NoOut EXCEPT !.docker_changed = 1]
    /\ UNCHANGED <<labs, running_lab_id, progress_cache, progress_dirty,
                   summary_cache, summary_dirty, notes_cache,
                   runtime_file, progress, notes, clock>>

\* variant: the reconciler always takes the "cannot verify" path
can_verify_never(d, c) == FALSE

\* variant: only the engine probe is consulted
can_verify_engine_only(d, c) == d[1]

\* `docker_ok and compose_ok`
can_verify(d, c) == d[1] /\ c[1]

\* variant: the test on the status answer is inverted
not_running_inverted(ps) == compose_has_running(ps)[1]

\* `not running`, on the answer of compose_has_running
not_running(ps) == ~compose_has_running(ps)[1]

\* variant: a claim is never tested against the registry
lab_missing_never(ls, rid) == FALSE

\* `if not lab`, for the lab looked up under the claimed id
lab_missing(ls, rid) == find_lab(ls, rid) = <<>>

verify_runtime_running_lab(d, c, ps) ==
    /\ pc = "docker"
    /\ pc' = "ready"
    /\ lastOp' = Op("verify_runtime_running_lab", running_lab_id)
    /\ UNCHANGED others
    /\ ret' = NoRet
    /\ IF running_lab_id = None
       THEN /\ out' = NoOut
            /\ UNCHANGED <<running_lab_id, runtime_file>>
       ELSE IF ~can_verify(d, c)
       THEN /\ out' = NoOut
            /\ UNCHANGED <<running_lab_id, runtime_file>>
       ELSE IF lab_missing(labs, running_lab_id)
       THEN /\ runtime_file' = set_running_lab(runtime_file, None)
            /\ running_lab_id' = None
            /\ out' = [NoOut EXCEPT !.running_changed = 1]
       ELSE IF not_running(ps)
       THEN /\ runtime_file' = set_running_lab(runtime_file, None)
            /\ running_lab_id' = None
            /\ out' = [NoOut EXCEPT !.running_changed = 1, !.compose_ps = 1]
       ELSE /\ out' = [NoOut EXCEPT !.compose_ps = 1]
            /\ UNCHANGED <<running_lab_id, runtime_file>>
    /\ UNCHANGED <<labs, docker_text, docker_kind, progress_cache, progress_dirty,
                   summary_cache, summary_dirty, notes_cache, progress, notes, clock>>

\* the process ends (window closed or killed); only the stores survive
exit ==
    /\ pc # "off"
    /\ pc' = "off"
    /\ labs' = {}
    /\ running_lab_id' = None
    /\ docker_text' = <<"Docker: Unknown">>
    /\ docker_kind' = "neutral"
    /\ progress_cache' = <<>>
    /\ progress_dirty' = TRUE
    /\ summary_cache' = <<>>
    /\ summary_dirty' = TRUE
    /\ notes_cache' = <<>>
    /\ lastOp' = Op("exit", None)
    /\ UNCHANGED others
    /\ ret' = NoRet
    /\ out' = NoOut
    /\ UNCHANGED <<runtime_file, progress, notes, clock>>


\* ------------------------------------------------------- user operations
\* every user operation happens at its own time; MaxClock bounds a history
CanAct == pc = "ready" /\ clock <= MaxClock

\* variant: only the progress map is invalidated
invalidate_progress_map_only ==
    /\ progress_dirty' = TRUE
    /\ UNCHANGED summary_dirty

\* AppState._invalidate_all_progress_views, the two dirty flags
invalidate_all_progress_views ==
    /\ progress_dirty' = TRUE
    /\ summary_dirty' = TRUE

\* variant: started_at is written on every call
mark_started_overwrite(lab_id) ==
    /\ CanAct
    /\ progress' = [progress EXCEPT ![lab_id].started_at = clock]
    /\ invalidate_all_progress_views
    /\ clock' = clock + 1
    /\ lastOp' = Op("mark_started", lab_id)
    /\ UNCHANGED others
    /\ ret' = NoRet
    /\ out' = [NoOut EXCEPT !.progress_changed = 1]
    /\ UNCHANGED <<pc, labs, running_lab_id, docker_text, docker_kind,
                   progress_cache, summary_cache, notes_cache, runtime_file, notes>>

mark_started(lab_id) ==
    /\ CanAct
    /\ progress' = db_mark_started(progress, lab_id, clock)
    /\ invalidate_all_progress_views
    /\ clock' = clock + 1
    /\ lastOp' = Op("mark_started", lab_id)
    /\ UNCHANGED others
    /\ ret' = NoRet
    /\ out' = [NoOut EXCEPT !.progress_changed = 1]
    /\ UNCHANGED <<pc, labs, running_lab_id, docker_text, docker_kind,
                   progress_cache, summary_cache, notes_cache, runtime_file, notes>>

\* variant: the counter is set instead of incremented
mark_attempt_once(lab_id) ==
    /\ CanAct
    /\ progress' = [progress EXCEPT ![lab_id].attempts = 1]
    /\ invalidate_all_progress_views
    /\ clock' = clock + 1
    /\ lastOp' = Op("mark_attempt", lab_id)
    /\ UNCHANGED others
    /\ ret' = NoRet
    /\ out' = [NoOut EXCEPT !.progress_changed = 1]
    /\ UNCHANGED <<pc, labs, running_lab_id, docker_text, docker_kind,
                   progress_cache, summary_cache, notes_cache, runtime_file, notes>>

mark_attempt(lab_id) ==
    /\ CanAct
    /\ progress' = db_mark_attempt(progress, lab_id)
    /\ invalidate_all_progress_views
    /\ clock' = clock + 1
    /\ lastOp' = Op("mark_attempt", lab_id)
    /\ UNCHANGED others
    /\ ret' = NoRet
    /\ out' = [NoOut EXCEPT !.progress_changed = 1]
    /\ UNCHANGED <<pc, labs, running_lab_id, docker_text, docker_kind,
                   progress_cache, summary_cache, notes_cache, runtime_file, notes>>

\* variant: the store is written and the signal emitted, the caches are not
\* invalidated
mark_solved_no_invalidate(lab_id) ==
    /\ CanAct
    /\ progress' = db_mark_solved(progress, lab_id, clock)
    /\ clock' = clock + 1
    /\ lastOp' = Op("mark_solved", lab_id)
    /\ UNCHANGED others
    /\ ret' = NoRet
    /\ out' = [NoOut EXCEPT !.progress_changed = 1]
    /\ UNCHANGED <<pc, labs, running_lab_id, docker_text, docker_kind,
                   progress_cache, progress_dirty, summary_cache, summary_dirty,
                   notes_cache, runtime_file, notes>>

\* variant: solved_at is written on every call
mark_solved_overwrite(lab_id) ==
    /\ CanAct
    /\ progress' = [progress EXCEPT ![lab_id].solved_at = clock]
    /\ invalidate_all_progress_views
    /\ clock' = clock + 1
    /\ lastOp' = Op("mark_solved", lab_id)
    /\ UNCHANGED others
    /\ ret' = NoRet
    /\ out' = [NoOut EXCEPT !.progress_changed = 1]
    /\ UNCHANGED <<pc, labs, running_lab_id, docker_text, docker_kind,
                   progress_cache, summary_cache, notes_cache, runtime_file, notes>>

mark_solved(lab_id) ==
    /\ CanAct
    /\ progress' = db_mark_solved(progress, lab_id, clock)
    /\ invalidate_all_progress_views
    /\ clock' = clock + 1
    /\ lastOp' = Op("mark_solved", lab_id)
    /\ UNCHANGED others
    /\ ret' = NoRet
    /\ out' = [NoOut EXCEPT !.progress_changed = 1]
    /\ UNCHANGED <<pc, labs, running_lab_id, docker_text, docker_kind,
                   progress_cache, summary_cache, notes_cache, runtime_file, notes>>

\* what submit_flag does to the progress store, what it returns and how many
\* signals it emits (one progress_changed per mark_* call)
Outcome(p, r, n, l) ==
    [progress |-> p, ret |-> r, progress_changed |-> n, labs_changed |-> l]

\* variant: the empty-submission test is missing
is_empty_never(submitted) == FALSE

\* `if not submitted`
is_empty(submitted) == submitted = <<>>

\* variant: the stored hash is trimmed but not lower-cased
expected_sha_of_no_lower(lab) == strip(lab.flag_sha256)

\* (getattr(lab, "flag_sha256", None) or "").strip().lower()
expected_sha_of(lab) == lower(strip(lab.flag_sha256))

\* variant: the missing-hash test is missing
not_configured_never(expected_sha) == FALSE

\* `if not expected_sha`
not_configured(expected_sha) == expected_sha = <<>>

\* variant: every configured lab accepts every non-empty submission
sha_equal_always(got_sha, expected_sha) == TRUE

\* got_sha == expected_sha
sha_equal(got_sha, expected_sha) == got_sha = expected_sha

submit_flag_outcome(ls, p, lab_id, flag, now) ==
    LET submitted == strip(flag)
    IN IF is_empty(submitted)
       THEN Outcome(db_mark_attempt(p, lab_id), <<FALSE, "Empty flag.">>, 1, 0)
       ELSE LET counted == db_mark_attempt(db_mark_started(p, lab_id, now), lab_id)
                lab == find_lab(ls, lab_id)
            IN IF lab = <<>>
               THEN Outcome(counted, <<FALSE, "Lab not found.">>, 2, 0)
               ELSE LET expected_sha == expected_sha_of(lab[1])
                        got_sha == sha256_hex(submitted)
                    IN IF not_configured(expected_sha)
                       THEN Outcome(counted,
                                    <<FALSE, "This lab has no flag_sha256 configured.">>, 2, 0)
                       ELSE IF sha_equal(got_sha, expected_sha)
                       THEN Outcome(db_mark_solved(counted, lab_id, now), <<TRUE, "">>, 3, 1)
                       ELSE Outcome(counted, <<FALSE, "">>, 2, 0)

submit_flag(lab_id, flag) ==
    /\ CanAct
    /\ LET o == submit_flag_outcome(labs, progress, lab_id, flag, clock)
       IN /\ progress' = o.progress
          /\ ret' = o.ret
          /\ out' = [NoOut EXCEPT !.progress_changed = o.progress_changed,
                                  !.labs_changed = o.labs_changed]
    /\ invalidate_all_progress_views
    /\ clock' = clock + 1
    /\ lastOp' = Op("submit_flag", lab_id)
    /\ UNCHANGED others
    /\ UNCHANGED <<pc, labs, running_lab_id, docker_text, docker_kind,
                   progress_cache, summary_cache, notes_cache, runtime_file, notes>>

\* variant: the early return on an unchanged claim is missing
same_claim_never(lab_id, rid) == FALSE

\* `if lab_id == self._running_lab_id`
same_claim(lab_id, rid) == lab_id = rid

set_running_lab_id(lab_id) ==
    /\ CanAct
    /\ clock' = clock + 1
    /\ lastOp' = Op("set_running_lab_id", lab_id)
    /\ UNCHANGED others
    /\ ret' = NoRet
    /\ IF same_claim(lab_id, running_lab_id)
       THEN /\ out' = NoOut
            /\ UNCHANGED <<running_lab_id, runtime_file, progress,
                           progress_dirty, summary_dirty>>
       ELSE /\ running_lab_id' = lab_id
            /\ runtime_file' = set_running_lab(runtime_file, lab_id)
            /\ IF lab_id # None
               THEN /\ progress' = db_mark_started(progress, lab_id, clock)
                    /\ invalidate_all_progress_views
                    /\ out' = [NoOut EXCEPT !.progress_changed = 1, !.running_changed = 1]
               ELSE /\ out' = [NoOut EXCEPT !.progress_changed = 1, !.running_changed = 1]
                    /\ UNCHANGED <<progress, progress_dirty, summary_dirty>>
    /\ UNCHANGED <<pc, labs, docker_text, docker_kind, progress_cache,
                   summary_cache, notes_cache, notes>>

\* variant: the text is kept in the memory cache only, the store is not written
set_notes_memory_only(lab_id, text) ==
    /\ CanAct
    /\ notes_cache' = [i \in DOMAIN notes_cache \cup {lab_id} |->
                          IF i = lab_id THEN text ELSE notes_cache[i]]
    /\ clock' = clock + 1
    /\ lastOp' = Op("set_notes", lab_id)
    /\ UNCHANGED others
    /\ ret' = NoRet
    /\ out' = [NoOut EXCEPT !.progress_changed = 1]
    /\ UNCHANGED <<pc, labs, running_lab_id, docker_text, docker_kind,
                   progress_cache, progress_dirty, summary_cache, summary_dirty,
                   runtime_file, progress, notes>>

set_notes(lab_id, text) ==
    /\ CanAct
    /\ notes' = db_set_notes(notes, lab_id, text)
    /\ notes_cache' = [i \in DOMAIN notes_cache \cup {lab_id} |->
                          IF i = lab_id THEN text ELSE notes_cache[i]]
    /\ clock' = clock + 1
    /\ lastOp' = Op("set_notes", lab_id)
    /\ UNCHANGED others
    /\ ret' = NoRet
    /\ out' = [NoOut EXCEPT !.progress_changed = 1]
    /\ UNCHANGED <<pc, labs, running_lab_id, docker_text, docker_kind,
                   progress_cache, progress_dirty, summary_cache, summary_dirty,
                   runtime_file, progress>>

\* AppState.get_notes: the store is read only when the lab has no cache entry
get_notes(lab_id) ==
    /\ CanAct
    /\ notes_cache' = IF lab_id \in DOMAIN notes_cache THEN notes_cache
                      ELSE [i \in DOMAIN notes_cache \cup {lab_id} |->
                              IF i = lab_id THEN db_get_notes(notes, lab_id)
                              ELSE notes_cache[i]]
    /\ ret' = <<notes_cache'[lab_id]>>
    /\ clock' = clock + 1
    /\ lastOp' = Op("get_notes", lab_id)
    /\ UNCHANGED others
    /\ out' = NoOut
    /\ UNCHANGED <<pc, labs, running_lab_id, docker_text, docker_kind,
                   progress_cache, progress_dirty, summary_cache, summary_dirty,
                   runtime_file, progress, notes>>

\* the cache AppState.progress_map holds after the call
progress_map_cache(cache, dirty, p) ==
    IF cache = <<>> \/ dirty THEN <<db_get_progress_map(p)>> ELSE cache

\* AppState.progress_map
progress_map ==
    /\ CanAct
    /\ progress_cache' = progress_map_cache(progress_cache, progress_dirty, progress)
    /\ progress_dirty' = FALSE
    /\ ret' = progress_cache'
    /\ clock' = clock + 1
    /\ lastOp' = Op("progress_map", None)
    /\ UNCHANGED others
    /\ out' = NoOut
    /\ UNCHANGED <<pc, labs, running_lab_id, docker_text, docker_kind,
                   summary_cache, summary_dirty, notes_cache,
                   runtime_file, progress, notes>>

\* AppState.is_solved: bool(progress_map().get(lab_id, {}).get("solved_at"))
is_solved(lab_id) ==
    /\ CanAct
    /\ progress_cache' = progress_map_cache(progress_cache, progress_dirty, progress)
    /\ progress_dirty' = FALSE
    /\ ret' = <<progress_cache'[1][lab_id].solved_at # Null>>
    /\ clock' = clock + 1
    /\ lastOp' = Op("is_solved", lab_id)
    /\ UNCHANGED others
    /\ out' = NoOut
    /\ UNCHANGED <<pc, labs, running_lab_id, docker_text, docker_kind,
                   summary_cache, summary_dirty, notes_cache,
                   runtime_file, progress, notes>>

\* AppState.total_attempts
total_attempts ==
    /\ CanAct
    /\ summary_cache' = IF summary_cache = <<>> \/ summary_dirty
                        THEN <<db_get_summary(progress)>> ELSE summary_cache
    /\ summary_dirty' = FALSE
    /\ ret' = <<summary_cache'[1].attempts>>
    /\ clock' = clock + 1
    /\ lastOp' = Op("total_attempts", None)
    /\ UNCHANGED others
    /\ out' = NoOut
    /\ UNCHANGED <<pc, labs, running_lab_id, docker_text, docker_kind,
                   progress_cache, progress_dirty, notes_cache,
                   runtime_file, progress, notes>>

Next ==
    \/ construct
    \/ refresh_labs
    \/ \E d \in DockerResults, c \in ComposeResults : refresh_docker(d, c)
    \/ \E d \in DockerResults, c \in ComposeResults, ps \in RunOutcomes :
          verify_runtime_running_lab(d, c, ps)
    \/ \E i \in Ids : mark_started(i)
    \/ \E i \in Ids : mark_attempt(i)
    \/ \E i \in Ids : mark_solved(i)
    \/ \E i \in Ids, f \in Flags : submit_flag(i, f)
    \/ \E i \in Ids \cup {None} : set_running_lab_id(i)
    \/ \E i \in Ids, t \in NoteTexts \cup {""} : set_notes(i, t)
    \/ \E i \in Ids : get_notes(i)
    \/ progress_map
    \/ \E i \in Ids : is_solved(i)
    \/ total_attempts
    \/ exit

Spec == Init /\ [][Next]_vars

\* ------------------------------------------------------- library calls
\* The functions of core/docker_ops.py, core/flags.py and core/runtime.py are
\* called on their own, outside a running application: lastOp holds the
\* function and its arguments, ret what the call did.  The functions keep no
\* state between calls, so a behaviour holds one call.
\* ------------------------------------------------------------------ ranks
RANKS == << <<"Bronze I", 0>>, <<"Bronze II", 300>>, <<"Bronze III", 700>>,
            <<"Silver I", 1200>>, <<"Silver II", 2000>>, <<"Silver III", 3000>>,
            <<"Gold I", 4500>>, <<"Gold II", 6500>>, <<"Gold III", 9000>>,
            <<"Platinum", 12000>>, <<"Diamond", 16000>>, <<"Master", 21000>> >>

\* the xp values the calculator is called with: around every floor
XpValues == {RANKS[i][2] + k : i \in 1..Len(RANKS), k \in (0 - MaxXpStep)..MaxXpStep}

\* the loop of rank_for_xp from entry i on, with the current and next entry
\* found so far
RECURSIVE rank_loop(_, _, _, _)
rank_loop(xp, i, cur, nxt) ==
    IF i > Len(RANKS) THEN <<cur, nxt>>
    ELSE IF xp >= RANKS[i][2]
    THEN rank_loop(xp, i + 1, RANKS[i],
                   IF i + 1 <= Len(RANKS) THEN RANKS[i + 1] ELSE <<None, None>>)
    ELSE <<cur, nxt>>

\* (cur_name, cur_floor, next_name, next_floor)
rank_for_xp(xp) ==
    LET r == rank_loop(xp, 1, RANKS[1], <<None, None>>)
    IN <<r[1][1], r[1][2], r[2][1], r[2][2]>>

Idle == lastOp = Op("none", None)

LibFrame ==
    UNCHANGED <<pc, labs, running_lab_id, docker_text, docker_kind,
                progress_cache, progress_dirty, summary_cache, summary_dirty,
                notes_cache, runtime_file, progress, notes, clock, out, others>>

call_docker_available(p, p2) ==
    /\ Idle
    /\ lastOp' = Op("docker_available", <<p, p2>>)
    /\ ret' = Returned(docker_available(p, p2))
    /\ LibFrame

call_compose_v2_available(p, p2) ==
    /\ Idle
    /\ lastOp' = Op("compose_v2_available", <<p, p2>>)
    /\ ret' = Returned(compose_v2_available(p, p2))
    /\ LibFrame

call_compose_has_running(p) ==
    /\ Idle
    /\ lastOp' = Op("compose_has_running", <<p>>)
    /\ ret' = Returned(compose_has_running(p))
    /\ LibFrame

call_compose_reset(down, up) ==
    /\ Idle
    /\ lastOp' = Op("compose_reset", <<down, up>>)
    /\ ret' = compose_reset(down, up)
    /\ LibFrame

call_compose_up(r) ==
    /\ Idle
    /\ lastOp' = Op("compose_up", <<r>>)
    /\ ret' = compose_up(r)
    /\ LibFrame

call_compose_down(r) ==
    /\ Idle
    /\ lastOp' = Op("compose_down", <<r>>)
    /\ ret' = compose_down(r)
    /\ LibFrame

call_compose_ps(r) ==
    /\ Idle
    /\ lastOp' = Op("compose_ps", <<r>>)
    /\ ret' = compose_ps(r)
    /\ LibFrame

call_compose_logs(r) ==
    /\ Idle
    /\ lastOp' = Op("compose_logs", <<r>>)
    /\ ret' = compose_logs(r)
    /\ LibFrame

call_compose_restart(r) ==
    /\ Idle
    /\ lastOp' = Op("compose_restart", <<r>>)
    /\ ret' = compose_restart(r)
    /\ LibFrame

call_get_running_lab(file) ==
    /\ Idle
    /\ lastOp' = Op("get_running_lab", <<file>>)
    /\ ret' = get_running_lab(file)
    /\ LibFrame

call_flag_matches_sha256(submitted_flag, expected_sha256) ==
    /\ Idle
    /\ lastOp' = Op("flag_matches_sha256", <<submitted_flag, expected_sha256>>)
    /\ ret' = Returned(flag_matches_sha256(submitted_flag, expected_sha256))
    /\ LibFrame

call_rank_for_xp(xp) ==
    /\ Idle
    /\ lastOp' = Op("rank_for_xp", <<xp>>)
    /\ ret' = rank_for_xp(xp)
    /\ LibFrame

NextLib ==
    \/ \E p \in RunOutcomes, p2 \in RunOutcomes : call_docker_available(p, p2)
    \/ \E p \in RunOutcomes, p2 \in RunOutcomes : call_compose_v2_available(p, p2)
    \/ \E p \in RunOutcomes : call_compose_has_running(p)
    \/ \E down \in run_results(DownTexts), up \in run_results(UpTexts) :
          call_compose_reset(down, up)
    \/ \E r \in run_results(UpTexts) : call_compose_up(r)
    \/ \E r \in run_results(DownTexts) : call_compose_down(r)
    \/ \E r \in run_results(UpTexts) : call_compose_ps(r)
    \/ \E r \in run_results(UpTexts) : call_compose_logs(r)
    \/ \E r \in run_results(UpTexts) : call_compose_restart(r)
    \/ \E file \in RuntimeFiles : call_get_running_lab(file)
    \/ \E S \in Submissions, H \in ExpectedHashes : call_flag_matches_sha256(S, H)
    \/ \E xp \in XpValues : call_rank_for_xp(xp)

SpecLib == Init /\ [][NextLib]_vars


\* --------------------------------------------- the application on a machine
\* The probes of a running application answer what the machine around it is
\* like at that moment; the machine changes on its own (containers stop or
\* start, docker or the compose plugin goes away or comes back).
RegistryIds == {x.id : x \in discover_labs}
Worlds == [docker : DockerProbes, compose : ComposeProbes, up : SUBSET RegistryIds]

\* what _run meets for `docker version`, `docker compose version` and
\* `docker compose ps --status running -q` of a lab on machine w
docker_probe(w) == w.docker
compose_probe(w) == IF w.docker = "notfound" THEN "notfound" ELSE w.compose
ps_probe(w, lab_id) ==
    IF w.docker = "notfound" THEN "notfound"
    ELSE IF w.compose = "fail" THEN "fail"
    ELSE IF lab_id \in w.up THEN "ok_out"
    ELSE "ok_silent"

engine_answer(w) == docker_available(docker_probe(w), docker_probe(w))
compose_answer(w) == compose_v2_available(compose_probe(w), compose_probe(w))

\* AppState.__init__ line 43
startup_probe ==
    /\ pc = "labs"
    /\ refresh_docker(engine_answer(world), compose_answer(world))

\* AppState.__init__ line 44
reconcile ==
    verify_runtime_running_lab(engine_answer(world), compose_answer(world),
                               ps_probe(world, running_lab_id))

\* the 12 s timer of MainWindow
poll ==
    /\ pc = "ready"
    /\ refresh_docker(engine_answer(world), compose_answer(world))

world_changes ==
    /\ \E w \in Worlds \ {world} : world' = w
    /\ UNCHANGED <<appVars, nav, idp, limiter>>

InitPoll ==
    /\ InitApp
    /\ world \in Worlds
    /\ nav = NoWindow
    /\ idp = IdpInit
    /\ limiter = LimiterInit

NextPoll ==
    \/ construct
    \/ refresh_labs
    \/ startup_probe
    \/ reconcile
    \/ poll
    \/ \E i \in Ids \cup {None} : set_running_lab_id(i)
    \/ world_changes
    \/ exit

\* the constructor runs its steps to the end and the timer keeps firing
SpecPoll ==
    /\ InitPoll
    /\ [][NextPoll]_vars
    /\ WF_vars(refresh_labs)
    /\ WF_vars(startup_probe)
    /\ WF_vars(reconcile)
    /\ WF_vars(poll)


\* ------------------------------------------------ the write of runtime.json
\* set_running_lab in steps: Path.write_text opens the file with mode "w",
\* which truncates it, then writes the text and closes.  The process can be
\* killed between any two steps; a later process reads the file.
WrittenFiles == {AbsentFile} \cup {RecordFile(i) : i \in Ids \cup {None}}

\* data = get_runtime(); data["running_lab_id"] = lab_id; open(RUNTIME, "w")
open_for_write(lab_id) ==
    /\ pc = "ready"
    /\ get_running_lab(runtime_file)[1] = "return"
    /\ pc' = "writing"
    /\ lastOp' = Op("set_running_lab", <<get_running_lab(runtime_file)[2], lab_id>>)
    /\ runtime_file' = GarbageFile
    /\ ret' = NoRet
    /\ UNCHANGED <<labs, running_lab_id, docker_text, docker_kind, progress_cache,
                   progress_dirty, summary_cache, summary_dirty, notes_cache,
                   progress, notes, clock, out, others>>

\* f.write(json.dumps(data, indent=2)) and close
write_data ==
    /\ pc = "writing"
    /\ pc' = "ready"
    /\ runtime_file' = set_running_lab(RecordFile(lastOp.id[1]), lastOp.id[2])
    /\ UNCHANGED <<labs, running_lab_id, docker_text, docker_kind, progress_cache,
                   progress_dirty, summary_cache, summary_dirty, notes_cache,
                   progress, notes, clock, lastOp, ret, out, others>>

\* the process is killed
kill ==
    /\ pc \in {"ready", "writing"}
    /\ pc' = "off"
    /\ UNCHANGED <<labs, running_lab_id, docker_text, docker_kind, progress_cache,
                   progress_dirty, summary_cache, summary_dirty, notes_cache,
                   runtime_file, progress, notes, clock, lastOp, ret, out, others>>

\* a later process calls get_running_lab
read_after_kill ==
    /\ pc = "off"
    /\ ret = NoRet
    /\ ret' = get_running_lab(runtime_file)
    /\ UNCHANGED <<pc, labs, running_lab_id, docker_text, docker_kind, progress_cache,
                   progress_dirty, summary_cache, summary_dirty, notes_cache,
                   runtime_file, progress, notes, clock, lastOp, out, others>>

InitWrite ==
    /\ pc = "ready"
    /\ labs = {}
    /\ running_lab_id = None
    /\ docker_text = <<"Docker: Unknown">>
    /\ docker_kind = "neutral"
    /\ progress_cache = <<>>
    /\ progress_dirty = TRUE
    /\ summary_cache = <<>>
    /\ summary_dirty = TRUE
    /\ notes_cache = <<>>
    /\ runtime_file \in WrittenFiles
    /\ progress = [i \in Ids |-> EmptyRow]
    /\ notes = [i \in Ids |-> ""]
    /\ clock = 1
    /\ lastOp = Op("none", None)
    /\ ret = NoRet
    /\ out = NoOut
    /\ world = QuietWorld
    /\ nav = NoWindow
    /\ idp = IdpInit
    /\ limiter = LimiterInit

NextWrite ==
    \/ \E i \in Ids \cup {None} : open_for_write(i)
    \/ write_data
    \/ kill
    \/ read_after_kill

SpecWrite == InitWrite /\ [][NextWrite]_vars


\* ------------------------------------------------------- the main window
\* The stack holds five pages: home 0, labs 1, lab detail 2, progress 3,
\* settings 4. A history entry is the pair (stack_index, lab_id | None).
Pages == 0..4
OpenIds == {"sqli-101", "ghost"}

\* MainWindow._update_nav_buttons
update_nav_buttons(n) ==
    [n EXCEPT !.can_back = n.hist_index > 0,
              !.can_fwd = n.hist_index < Len(n.history) - 1]

\* variant: the entries after the current one are kept
drop_forward_never(history, hist_index) == history

\* `self._history = self._history[: self._hist_index + 1]` when not at the end
drop_forward(history, hist_index) ==
    IF hist_index < Len(history) - 1
    THEN SubSeq(history, 1, hist_index + 1)
    ELSE history

\* MainWindow._push_history
push_history(n, stack_index, lab_id) ==
    LET h == drop_forward(n.history, n.hist_index)
    IN IF h # <<>> /\ h[Len(h)] = <<stack_index, lab_id>>
       THEN update_nav_buttons([n EXCEPT !.history = h, !.hist_index = Len(h) - 1])
       ELSE update_nav_buttons([n EXCEPT !.history = Append(h, <<stack_index, lab_id>>),
                                         !.hist_index = Len(h)])

\* MainWindow._select_lab_only with AppState.set_selected
select_lab_only(n, ls, lab_id) ==
    IF find_lab(ls, lab_id) # <<>> THEN [n EXCEPT !.selected = lab_id] ELSE n

\* Sidebar.set_page: the stack shows the page
set_page(n, stack_index) == [n EXCEPT !.page = stack_index]

\* MainWindow.navigate
navigate_to(n, ls, stack_index, lab_id, push) ==
    LET shown == IF stack_index = 2 /\ lab_id # None
                 THEN set_page(select_lab_only(n, ls, lab_id), 2)
                 ELSE set_page(n, stack_index)
        pushed == IF push THEN push_history(shown, stack_index, lab_id) ELSE shown
    IN update_nav_buttons(pushed)

\* what a window operation leaves alone: AppState, its stores and the machine
NavFrame ==
    UNCHANGED <<pc, labs, running_lab_id, docker_text, docker_kind,
                progress_cache, progress_dirty, summary_cache, summary_dirty,
                notes_cache, runtime_file, progress, notes, clock, ret, out, world,
                idp, limiter>>

Room(n) == Len(n.history) <= MaxHistory

\* MainWindow.__init__: connect the signals, then navigate(0, push=True)
window_init ==
    /\ pc = "ready"
    /\ ~nav.shown
    /\ nav' = [navigate_to(nav, labs, 0, None, TRUE) EXCEPT !.shown = TRUE]
    /\ lastOp' = Op("window_init", None)
    /\ NavFrame

\* a click in the sidebar: the stack changes page, currentChanged fires and
\* _on_stack_changed pushes the page (with the selected lab on the detail page)
sidebar_click(index) ==
    /\ nav.shown
    /\ index # nav.page
    /\ LET lab_id == IF index = 2 /\ nav.selected # None THEN nav.selected ELSE None
           n == push_history(set_page(nav, index), index, lab_id)
       IN Room(n) /\ nav' = n
    /\ lastOp' = Op("sidebar_click", <<index>>)
    /\ NavFrame

\* navigate(1, push=True), from the home page and from the lab detail page
navigate(stack_index) ==
    /\ nav.shown
    /\ LET n == navigate_to(nav, labs, stack_index, None, TRUE)
       IN Room(n) /\ nav' = n
    /\ lastOp' = Op("navigate", <<stack_index>>)
    /\ NavFrame

\* MainWindow._select_and_open_lab
select_and_open_lab(lab_id) ==
    /\ nav.shown
    /\ LET n == navigate_to(select_lab_only(nav, labs, lab_id), labs, 2, lab_id, TRUE)
       IN Room(n) /\ nav' = n
    /\ lastOp' = Op("select_and_open_lab", <<lab_id>>)
    /\ NavFrame

\* MainWindow._go_back; the index it starts from is noted in lastOp
go_back ==
    /\ nav.shown
    /\ IF nav.hist_index <= 0
       THEN nav' = nav
       ELSE LET at == nav.hist_index - 1
                e == nav.history[at + 1]
            IN nav' = navigate_to([nav EXCEPT !.hist_index = at], labs, e[1], e[2], FALSE)
    /\ lastOp' = Op("go_back", <<nav.hist_index>>)
    /\ NavFrame

\* MainWindow._go_forward
go_forward ==
    /\ nav.shown
    /\ IF nav.hist_index >= Len(nav.history) - 1
       THEN nav' = nav
       ELSE LET at == nav.hist_index + 1
                e == nav.history[at + 1]
            IN nav' = navigate_to([nav EXCEPT !.hist_index = at], labs, e[1], e[2], FALSE)
    /\ lastOp' = Op("go_forward", <<nav.hist_index>>)
    /\ NavFrame

NextNav ==
    \/ construct
    \/ refresh_labs
    \/ startup_probe
    \/ reconcile
    \/ window_init
    \/ \E index \in Pages : sidebar_click(index)
    \/ navigate(1)
    \/ \E lab_id \in OpenIds : select_and_open_lab(lab_id)
    \/ go_back
    \/ go_forward

SpecNav == Init /\ [][NextNav]_vars

\* ------------------------------------------- LinkLapse identity provider
\* timedelta(minutes=10), in ticks of the provider's clock
CodeTtl == 2

\* the row of oauth_codes with this code, if any
code_row(codes, code) ==
    IF \E r \in codes : r.code = code
    THEN <<CHOOSE r \in codes : r.code = code>>
    ELSE <<>>

IdpFrame == UNCHANGED <<appVars, world, nav, limiter>>

\* idp_issue_code: a fresh token, INSERT OR REPLACE with expiry now + 10 min
idp_issue_code ==
    /\ Len(idp.issued) < MaxCodes
    /\ LET code == Len(idp.issued) + 1
           exp == idp.now + CodeTtl
       IN idp' = [idp EXCEPT
                    !.oauth_codes = {r \in @ : r.code # code}
                                       \cup {[code |-> code, expires_at |-> exp]},
                    !.issued = Append(@, exp)]
    /\ IdpFrame

\* time passes at the identity provider
idp_tick ==
    /\ idp.now < MaxIdpNow
    /\ idp' = [idp EXCEPT !.now = @ + 1]
    /\ IdpFrame

\* `row["expires_at"] < now_iso()`
code_expired(row, now) == row.expires_at < now

\* opalid_callback on thread t calls idp_exchange_code(code): the SELECT and
\* the two tests; a missing or expired row ends the request with None
exchange_select(t, code) ==
    /\ idp.req[t].pc = "idle"
    /\ LET row == code_row(idp.oauth_codes, code)
       IN IF row = <<>>
          THEN idp' = [idp EXCEPT !.req[t] = [IdleExchange EXCEPT !.code = code]]
          ELSE IF code_expired(row[1], idp.now)
          THEN idp' = [idp EXCEPT !.req[t] = [IdleExchange EXCEPT !.code = code]]
          ELSE idp' = [idp EXCEPT !.req[t] =
                          [pc |-> "delete", code |-> code, row |-> row, at |-> idp.now]]
    /\ IdpFrame

\* the rest of idp_exchange_code on thread t: DELETE, commit, return the
\* identity of the row read before; the callback goes on with it
exchange_delete(t) ==
    /\ idp.req[t].pc = "delete"
    /\ idp' = [idp EXCEPT
                 !.oauth_codes = {r \in @ : r.code # idp.req[t].code},
                 !.grants = @ \cup {<<t, idp.req[t].code, idp.req[t].at>>},
                 !.req[t] = [IdleExchange EXCEPT !.code = idp.req[t].code]]
    /\ IdpFrame

NextIdp ==
    \/ idp_issue_code
    \/ idp_tick
    \/ \E t \in Threads, code \in 0..MaxCodes : exchange_select(t, code)
    \/ \E t \in Threads : exchange_delete(t)

SpecIdp == Init /\ [][NextIdp]_vars


\* --------------------------------------- AsterCheck reports: login limiter
max(a, b) == IF a >= b THEN a ELSE b

\* `while q and q[0] < cutoff: q.popleft()`
RECURSIVE popleft_old(_, _)
popleft_old(q, cutoff) ==
    IF q # <<>> /\ q[1] < cutoff THEN popleft_old(Tail(q), cutoff) ELSE q

\* _ban_ip at time now
ban_ip(l, ip, now) ==
    [l EXCEPT !.login_blocked_until[ip] = max(@, now + LOGIN_BLOCK_SECONDS)]

LoginFrame == UNCHANGED <<appVars, world, nav, idp>>

\* the earliest stamp a request can still be admitted with: the clock, or the
\* stamp of a request that has passed the tests and not yet recorded its hit
earliest_stamp(l) ==
    LET S == {l.now} \cup {l.req[t].now : t \in {u \in Threads : l.req[u].pc = "append"}}
    IN CHOOSE m \in S : \A x \in S : m <= x

\* the admission counts are kept for the stamps that can still share a
\* window with a later admission
recent(l) ==
    [l EXCEPT !.admitted = [ip \in Ips |-> [s \in 0..(MaxLoginNow + 1) |->
                               IF s + LOGIN_RATE_WINDOW_SEC < earliest_stamp(l)
                               THEN 0 ELSE l.admitted[ip][s]]]]

\* time passes at the portal
login_tick ==
    /\ limiter.now < MaxLoginNow
    /\ limiter' = recent([limiter EXCEPT !.now = @ + 1])
    /\ LoginFrame

\* do_login on thread t for a request of ip: _is_rate_limited_login up to its
\* last test. A blocked ip is denied; old hits are dropped; a full window
\* bans the ip and denies; otherwise the request goes on to record its hit.
login_check(t, ip) ==
    /\ limiter.req[t].pc = "idle"
    /\ LET now == limiter.now
           q == popleft_old(limiter.login_hits[ip], now - LOGIN_RATE_WINDOW_SEC)
       IN IF now < limiter.login_blocked_until[ip]
          THEN limiter' = [limiter EXCEPT !.last = "denied"]
          ELSE IF Len(q) >= LOGIN_RATE_MAX
          THEN limiter' = [ban_ip(limiter, ip, now) EXCEPT
                              !.login_hits[ip] = q,
                              !.block_started[ip] = now,
                              !.last = "denied"]
          ELSE limiter' = [limiter EXCEPT
                              !.login_hits[ip] = q,
                              !.req[t] = [pc |-> "append", ip |-> ip, now |-> now],
                              !.last = "passed"]
    /\ LoginFrame

\* the rest on thread t: q.append(now), then the test of the form fields; a
\* blacklisted word bans the ip, anything else goes on to the database
login_append(t, blacklisted) ==
    /\ limiter.req[t].pc = "append"
    /\ LET r == limiter.req[t]
           hit == [limiter EXCEPT
                      !.login_hits[r.ip] = Append(@, r.now),
                      !.admitted[r.ip][r.now] = @ + 1,
                      !.req[t] = IdleLogin,
                      !.last = "admitted"]
       IN limiter' = recent(IF blacklisted THEN ban_ip(hit, r.ip, limiter.now) ELSE hit)
    /\ LoginFrame

NextLogin ==
    \/ login_tick
    \/ \E t \in Threads, ip \in Ips : login_check(t, ip)
    \/ \E t \in Threads, blacklisted \in BOOLEAN : login_append(t, blacklisted)

SpecLogin == Init /\ [][NextLogin]_vars

\* ================================================================ claims
EmptyFlag == <<FALSE, "Empty flag.">>
LabNotFound == <<FALSE, "Lab not found.">>
Misconfigured == <<FALSE, "This lab has no flag_sha256 configured.">>
WrongFlag == <<FALSE, "">>
Solved == <<TRUE, "">>

\* the step being taken is a reconciliation pass
Reconciling == lastOp'.op = "verify_runtime_running_lab"

\* the claimed lab is in the registry
ClaimInRegistry == running_lab_id # None /\ \E x \in labs : x.id = running_lab_id

\* C1: when engine and compose are reachable and the status query answers
\* "not running" for the claimed lab, reconciliation leaves running_lab_id
\* null in memory and in the persisted record; a pass that starts from that
\* end state (no claim) changes nothing, so a second pass ends in the same state.
C1_ReconcileClearsStale ==
    [][Reconciling => \A d \in DockerResults, c \in ComposeResults, ps \in RunOutcomes :
          /\ (d[1] /\ c[1] /\ ClaimInRegistry /\ ~compose_has_running(ps)[1]
                /\ verify_runtime_running_lab(d, c, ps))
                   => /\ running_lab_id' = None
                      /\ runtime_file'.kind = "record"
                      /\ runtime_file'.running_lab_id = None
          /\ (running_lab_id = None /\ verify_runtime_running_lab(d, c, ps))
                   => /\ running_lab_id' = None
                      /\ runtime_file' = runtime_file
                      /\ out'.running_changed = 0]_vars

\* a pass has just cleared a claim for a registry lab after querying its status
C1_Witness ==
    /\ pc = "ready"
    /\ lastOp = Op("verify_runtime_running_lab", "sqli-101")
    /\ out.compose_ps = 1
    /\ out.running_changed = 1
    /\ running_lab_id = None
    /\ runtime_file = RecordFile(None)

\* C2: when the engine or the compose plugin is unreachable, reconciliation
\* leaves running_lab_id as it was in memory and in the persisted record, for
\* every claimed value, and emits no running_changed.
C2_ReconcileNonInterference ==
    [][Reconciling => \A d \in DockerResults, c \in ComposeResults, ps \in RunOutcomes :
          ((~d[1] \/ ~c[1]) /\ verify_runtime_running_lab(d, c, ps))
             => /\ running_lab_id' = running_lab_id
                /\ runtime_file' = runtime_file
                /\ out'.running_changed = 0
                /\ out'.compose_ps = 0]_vars

\* a pass has left a claim for a lab outside the registry in place
C2_Witness ==
    /\ pc = "ready"
    /\ lastOp = Op("verify_runtime_running_lab", "ghost")
    /\ running_lab_id = "ghost"
    /\ runtime_file = RecordFile("ghost")
    /\ out = NoOut

\* the status query itself failed: non-zero exit, timeout or another error
QueryFailed(ps) == ps \in {"fail", "timeout", "notfound"}

Submitting(i) == lastOp' = Op("submit_flag", i)

\* lab i is in the registry and has no flag hash configured
NoHashLab(i) == \E x \in labs : x.id = i /\ lower(strip(x.flag_sha256)) = <<>>

\* lab i is in the registry and has a flag hash configured
HashLab(i) == \E x \in labs : x.id = i /\ lower(strip(x.flag_sha256)) # <<>>

\* the rows of all labs other than i are left alone
OtherRowsUnchanged(i) == \A j \in Ids \ {i} : progress'[j] = progress[j]

\* started_at after a first-write-wins write at the current time
StartedAfter(i) ==
    IF progress[i].started_at = Null THEN clock ELSE progress[i].started_at

\* C4 as stated: for a registry lab without a flag hash, submit_flag returns
\* the misconfigured failure for every submitted string and never sets solved_at.
C4_AlwaysMisconfigured ==
    [][\A i \in Ids : (Submitting(i) /\ NoHashLab(i)) => \A f \in Flags :
          submit_flag(i, f)
             => /\ ret' = Misconfigured
                /\ progress'[i].solved_at = progress[i].solved_at]_vars

\* C4 amended: for a registry lab without a flag hash, submit_flag returns the
\* misconfigured failure for every submission that is non-empty after
\* trimming and the empty-flag rejection otherwise; no call sets solved_at.
C4_MisconfiguredUnlessEmpty ==
    [][\A i \in Ids : (Submitting(i) /\ NoHashLab(i)) => \A f \in Flags :
          submit_flag(i, f)
             => /\ strip(f) # <<>> => ret' = Misconfigured
                /\ strip(f) = <<>> => ret' = EmptyFlag
                /\ ret' \notin {Solved, WrongFlag, LabNotFound}
                /\ progress'[i].solved_at = progress[i].solved_at]_vars

\* a submission to the lab without hash was answered "misconfigured"
C4_Witness ==
    /\ lastOp = Op("submit_flag", "nohash")
    /\ ret = Misconfigured
    /\ progress["nohash"].attempts >= 1
    /\ progress["nohash"].solved_at = Null

\* C5: for a registry lab with a flag hash and a submission non-empty after
\* trimming, submit_flag succeeds exactly when the digest of the trimmed
\* submission equals the lab's hash; attempts grows by exactly 1 either way;
\* success leaves solved_at set; failure leaves solved_at as it was and rolls
\* nothing back.
C5_SubmitAgainstHash ==
    [][\A i \in Ids : (Submitting(i) /\ HashLab(i)) => \A f \in Flags :
          (strip(f) # <<>> /\ submit_flag(i, f))
             => LET lab == CHOOSE x \in labs : x.id = i
                    match == sha256_hex(strip(f)) = lower(strip(lab.flag_sha256))
                IN /\ ret' = IF match THEN Solved ELSE WrongFlag
                   /\ progress'[i].attempts = progress[i].attempts + 1
                   /\ progress'[i].started_at = StartedAfter(i)
                   /\ match => /\ progress'[i].solved_at # Null
                               /\ progress[i].solved_at # Null =>
                                     progress'[i].solved_at = progress[i].solved_at
                   /\ ~match => progress'[i].solved_at = progress[i].solved_at
                   /\ OtherRowsUnchanged(i)]_vars

\* a correct submission at time 1, then a wrong one at time 2
C5_Witness ==
    /\ lastOp = Op("submit_flag", "sqli-101")
    /\ ret = WrongFlag
    /\ clock = 3
    /\ progress["sqli-101"] = [started_at |-> 1, solved_at |-> 1, attempts |-> 2]

\* C6: mark_solved sets solved_at only when it is unset, and no operation
\* clears or overwrites a solved_at that is set.
C6_SolvedFirstWriteWins ==
    [][/\ \A i \in Ids :
             progress[i].solved_at # Null => progress'[i].solved_at = progress[i].solved_at
       /\ \A i \in Ids :
             (lastOp' = Op("mark_solved", i) /\ mark_solved(i))
                => progress'[i].solved_at =
                      IF progress[i].solved_at = Null THEN clock ELSE progress[i].solved_at]_vars

\* mark_solved was called at time 2 on a lab solved at time 1
C6_Witness ==
    /\ lastOp = Op("mark_solved", "sqli-101")
    /\ clock = 3
    /\ progress["sqli-101"].solved_at = 1

\* C7: each mark_attempt(id) adds exactly 1 to the lab's attempts, the other
\* progress operations leave every attempts counter alone, no step decreases
\* a counter, and attempts >= 0 throughout.
C7_AttemptsAdditive ==
    /\ [](\A i \in Ids : progress[i].attempts >= 0)
    /\ [][/\ \A i \in Ids :
                (lastOp' = Op("mark_attempt", i) /\ mark_attempt(i))
                   => /\ progress'[i].attempts = progress[i].attempts + 1
                      /\ \A j \in Ids \ {i} : progress'[j].attempts = progress[j].attempts
          /\ lastOp'.op \in {"mark_started", "mark_solved", "set_notes", "set_running_lab_id"}
                => \A i \in Ids : progress'[i].attempts = progress[i].attempts
          /\ \A i \in Ids : progress'[i].attempts >= progress[i].attempts]_vars

\* two mark_attempt calls around nothing else: the counter stands at 2
C7_Witness ==
    /\ lastOp = Op("mark_attempt", "nohash")
    /\ progress["nohash"].attempts = 2

\* C8: a submission that is empty after trimming is rejected as empty for
\* every lab id, whatever the registry holds, records exactly one attempt
\* and changes neither started_at nor solved_at.
C8_EmptySubmission ==
    [][\A i \in Ids : Submitting(i) => \A f \in Flags :
          (strip(f) = <<>> /\ submit_flag(i, f))
             => /\ ret' = EmptyFlag
                /\ progress'[i] = [progress[i] EXCEPT !.attempts = @ + 1]
                /\ OtherRowsUnchanged(i)
                /\ out'.labs_changed = 0
                /\ \A ls \in SUBSET discover_labs :
                      submit_flag_outcome(ls, progress, i, f, clock)
                         = submit_flag_outcome(labs, progress, i, f, clock)]_vars

\* an empty submission for an id outside the registry counted one attempt
C8_Witness ==
    /\ lastOp = Op("submit_flag", "ghost")
    /\ ret = EmptyFlag
    /\ progress["ghost"] = [started_at |-> Null, solved_at |-> Null, attempts |-> 1]

\* C9: a non-empty submission for an id outside the registry returns "lab
\* not found", which differs from the other results; the row gets started_at
\* (if unset) and one more attempt, solved_at stays as it was, and no
\* labs_changed is emitted.
C9_LabNotFound ==
    [][\A i \in Ids : (Submitting(i) /\ ~\E x \in labs : x.id = i) => \A f \in Flags :
          (strip(f) # <<>> /\ submit_flag(i, f))
             => /\ ret' = LabNotFound
                /\ ret' \notin {EmptyFlag, Misconfigured, WrongFlag, Solved}
                /\ progress'[i] = [progress[i] EXCEPT !.started_at = StartedAfter(i),
                                                      !.attempts = @ + 1]
                /\ OtherRowsUnchanged(i)
                /\ out'.labs_changed = 0]_vars

\* a submission for the unknown id was answered "lab not found"
C9_Witness ==
    /\ lastOp = Op("submit_flag", "ghost")
    /\ ret = LabNotFound
    /\ progress["ghost"].started_at # Null
    /\ progress["ghost"].solved_at = Null
    /\ progress["ghost"].attempts >= 1

\* C10: mark_started sets started_at only when it is unset, also when it is
\* reached through submit_flag and through set_running_lab_id, and no
\* operation changes a started_at that is set.
C10_StartedFirstWriteWins ==
    [][/\ \A i \in Ids :
             progress[i].started_at # Null => progress'[i].started_at = progress[i].started_at
       /\ \A i \in Ids :
             (lastOp' = Op("mark_started", i) /\ mark_started(i))
                => progress'[i].started_at = StartedAfter(i)
       /\ \A i \in Ids :
             (lastOp' = Op("set_running_lab_id", i) /\ set_running_lab_id(i)
                /\ i # running_lab_id)
                => progress'[i].started_at = StartedAfter(i)
       /\ \A i \in Ids : Submitting(i) => \A f \in Flags :
             (strip(f) # <<>> /\ submit_flag(i, f))
                => progress'[i].started_at = StartedAfter(i)]_vars

\* a lab started at time 1 was set running at time 2 and kept its started_at
C10_Witness ==
    /\ lastOp = Op("set_running_lab_id", "sqli-101")
    /\ out.progress_changed = 1
    /\ running_lab_id = "sqli-101"
    /\ clock = 3
    /\ progress["sqli-101"].started_at = 1


\* ---------------------------------------------------------------- C11
\* C11: notes round trip.  set_notes(id, x) stores exactly x for id and
\* leaves the other labs' notes alone (last write wins), nothing but
\* set_notes changes the stored notes (they survive the end of the process
\* and a new start with an empty cache), and get_notes(id) returns the stored
\* text of id, whether it is served from the cache or from the store.
C11_NotesRoundTrip ==
    [][/\ \A i \in Ids : lastOp' = Op("set_notes", i) =>
             \A t \in NoteTexts \cup {""} :
                set_notes(i, t) => /\ notes'[i] = t
                                   /\ \A j \in Ids \ {i} : notes'[j] = notes[j]
       /\ lastOp'.op # "set_notes" => notes' = notes
       /\ \A i \in Ids : lastOp' = Op("get_notes", i) => ret' = <<notes[i]>>
      ]_vars

\* get_notes has returned a text that set_notes wrote
C11_Witness ==
    /\ lastOp = Op("get_notes", "sqli-101")
    /\ ret = <<"x">>
    /\ notes["sqli-101"] = "x"

\* ---------------------------------------------------------------- C12
starts_with(text, prefix) ==
    Len(prefix) <= Len(text) /\ SubSeq(text, 1, Len(prefix)) = prefix

ends_with(text, suffix) ==
    Len(suffix) <= Len(text)
       /\ SubSeq(text, Len(text) - Len(suffix) + 1, Len(text)) = suffix

\* C12: when both steps of compose_reset have finished, its exit code is the
\* exit code of the up step whatever the down step's exit code was, and its
\* stdout and its stderr each begin with down's text and end with up's text,
\* the two not overlapping.
C12_ResetFinalStateWins ==
    (lastOp.op = "compose_reset" /\ lastOp.id[1][1] = "return" /\ lastOp.id[2][1] = "return")
       => LET down == lastOp.id[1][2]
              up == lastOp.id[2][2]
          IN /\ ret[1] = "return"
             /\ ret[2].returncode = up.returncode
             /\ starts_with(ret[2].stdout, down.stdout)
             /\ ends_with(ret[2].stdout, up.stdout)
             /\ Len(ret[2].stdout) >= Len(down.stdout) + Len(up.stdout)
             /\ starts_with(ret[2].stderr, down.stderr)
             /\ ends_with(ret[2].stderr, up.stderr)
             /\ Len(ret[2].stderr) >= Len(down.stderr) + Len(up.stderr)

\* down exited 1, up exited 0, and the reset reports success with both texts
C12_Witness ==
    /\ lastOp.op = "compose_reset"
    /\ lastOp.id = <<Returned(Completed(1, <<"d">>, <<>>)),
                     Returned(Completed(0, <<"u">>, <<>>))>>
    /\ ret = Returned(Completed(0, <<"d", "\n", "u">>, <<>>))

\* ---------------------------------------------------------------- C13
DockerControlOps ==
    {"docker_available", "compose_v2_available", "compose_has_running",
     "compose_reset", "compose_up", "compose_down", "compose_ps",
     "compose_logs", "compose_restart"}

\* C13: no Docker Control operation raises for a missing binary, a non-zero
\* exit or a timeout; each call returns a value.
C13_DockerControlNeverRaises ==
    lastOp.op \in DockerControlOps => ret[1] = "return"

\* ---------------------------------------------------------------- C16
\* the second probe of docker_available runs when the first one finished
\* without both exit code 0 and a non-blank stdout
second_probe_runs(p) == p \in {"ok_err", "ok_silent", "fail"}

probes_run(p, p2) == IF second_probe_runs(p) THEN {p, p2} ELSE {p}

\* C16: docker_available returns a value for every behaviour of its probes;
\* the value is (false, "Docker CLI not found") exactly when a probe it ran
\* found no docker binary; when the binary exists and a probe timed out or
\* both probes failed it is (false, another detail); it is (true, _) only if
\* a probe it ran exited 0.
C16_DockerAvailable ==
    lastOp.op = "docker_available"
       => LET p == lastOp.id[1]
              p2 == lastOp.id[2]
              ran == probes_run(p, p2)
              r == ret[2]
          IN /\ ret[1] = "return"
             /\ (r = <<FALSE, "Docker CLI not found">>) <=> ("notfound" \in ran)
             /\ ("notfound" \notin ran /\ ("timeout" \in ran \/ ran = {"fail"}))
                   => (~r[1] /\ r[2] # "Docker CLI not found")
             /\ r[1] => \E q \in ran : rc0(q)

\* the binary is missing; the binary exists and the daemon is unreachable
C16_Witness ==
    /\ lastOp.op = "docker_available"
    /\ \/ lastOp.id = <<"notfound", "notfound">> /\ ret = Returned(<<FALSE, "Docker CLI not found">>)
       \/ lastOp.id = <<"fail", "fail">> /\ ret = Returned(<<FALSE, "stderr">>)

\* ---------------------------------------------------------------- C14
\* C14: get_running_lab returns null, and never raises, when the runtime file
\* was never written and for every corrupt content of it (text that does not
\* parse, or parsed content that is not the expected record).
C14_ReadNeverRaises ==
    (lastOp.op = "get_running_lab" /\ lastOp.id[1] \in {AbsentFile} \cup CorruptFiles)
       => ret = Returned(None)

\* ---------------------------------------------------------------- C15
\* C15: for every non-empty submitted string S and expected hash H the
\* verifier answers for S what it answers for trim(S); it answers the same
\* for H written in upper case, in lower case or with blanks around it; and
\* when S matches H, no submission whose trimmed text differs from trim(S)
\* only in letter case matches H.
C15_FlagVerifier ==
    lastOp.op = "flag_matches_sha256"
       => LET S == lastOp.id[1]
              H == lastOp.id[2]
          IN /\ ret[1] = "return"
             /\ S # <<>> => ret[2] = flag_matches_sha256(strip(S), H)
             /\ \A H2 \in Spellings(H) \cup {lower(H)} :
                   flag_matches_sha256(S, H2) = ret[2]
             /\ ret[2] => \A S2 \in Submissions :
                   (strip(S2) # strip(S) /\ lower(strip(S2)) = lower(strip(S)))
                      => ~flag_matches_sha256(S2, H)

\* a flag with a blank before it matches its digest written in upper case
C15_Witness ==
    /\ lastOp.op = "flag_matches_sha256"
    /\ lastOp.id = << <<" ", "a">>, <<"C", "A", "E", "3">> >>
    /\ ret = Returned(TRUE)

\* ---------------------------------------------------------------- C17
\* C17: write-through of the running claim.  While the application runs, the
\* running_lab_id read back from the runtime file equals the one AppState
\* holds in memory, in every state between operations; and a step that
\* changes either of them (set_running_lab_id with a new value, a
\* reconciliation clear) leaves the file holding a record of the new value.
C17_WriteThrough ==
    /\ [](pc # "off" => get_running_lab(runtime_file) = Returned(running_lab_id))
    /\ [][(pc # "off" /\ pc' # "off"
             /\ (running_lab_id' # running_lab_id \/ runtime_file' # runtime_file))
              => runtime_file' = RecordFile(running_lab_id')]_vars

\* a lab was started: the claim is in memory and in the file
C17_Witness ==
    /\ lastOp = Op("set_running_lab_id", "sqli-101")
    /\ out.running_changed = 1
    /\ running_lab_id = "sqli-101"
    /\ runtime_file = RecordFile("sqli-101")

\* ---------------------------------------------------------------- C18
\* C18: cache coherence.  In every state, a progress cache whose dirty flag
\* is false equals the current content of the progress store, and a summary
\* cache whose dirty flag is false equals the store's current summary; so
\* progress_map(), is_solved() and total_attempts() return what the store
\* holds at the time of the call.
C18_CacheCoherence ==
    /\ [](/\ ~progress_dirty => progress_cache = <<db_get_progress_map(progress)>>
          /\ ~summary_dirty => summary_cache = <<db_get_summary(progress)>>)
    /\ [][/\ lastOp'.op = "progress_map" => ret' = <<db_get_progress_map(progress)>>
          /\ \A i \in Ids : lastOp' = Op("is_solved", i)
                => ret' = <<db_get_progress_map(progress)[i].solved_at # Null>>
          /\ lastOp'.op = "total_attempts" => ret' = <<db_get_summary(progress).attempts>>
         ]_vars

\* total_attempts was called after an attempt and returned the new count
C18_Witness ==
    /\ lastOp = Op("total_attempts", None)
    /\ ret = <<1>>
    /\ ~summary_dirty

\* ---------------------------------------------------------------- C19
MarkOps == {"mark_started", "mark_attempt", "mark_solved"}

CachesKept == progress_cache' = progress_cache /\ summary_cache' = summary_cache

\* C19: every mutation made through AppState (mark_started, mark_attempt,
\* mark_solved, set_notes) marks both caches dirty and emits exactly one
\* progress_changed, and recomputes no cache.
C19_EveryMutationInvalidates ==
    [][lastOp'.op \in MarkOps \cup {"set_notes"}
          => /\ progress_dirty' /\ summary_dirty'
             /\ out'.progress_changed = 1
             /\ CachesKept]_vars

\* C19 amended: mark_started, mark_attempt and mark_solved mark both caches
\* dirty and emit exactly one progress_changed; set_notes emits exactly one
\* progress_changed, stores the text in its notes cache entry and leaves the
\* two dirty flags as they were; none of the four recomputes the progress
\* cache or the summary cache.
C19_MarksInvalidateNotesNotify ==
    [][/\ lastOp'.op \in MarkOps
            => /\ progress_dirty' /\ summary_dirty'
               /\ out'.progress_changed = 1
               /\ CachesKept
       /\ \A i \in Ids : lastOp' = Op("set_notes", i)
            => /\ progress_dirty' = progress_dirty /\ summary_dirty' = summary_dirty
               /\ out'.progress_changed = 1
               /\ CachesKept
               /\ i \in DOMAIN notes_cache' /\ notes_cache'[i] = notes'[i]
      ]_vars

\* set_notes ran on clean caches: it notified once and the flags stayed clean
C19_Witness ==
    /\ lastOp = Op("set_notes", "sqli-101")
    /\ out.progress_changed = 1
    /\ notes_cache["sqli-101"] = "x"
    /\ ~progress_dirty
    /\ progress_cache = <<progress>>

\* ---------------------------------------------------------------- C20
\* the steps of AppState start-up, by the operation that performs them
LoadRuntimeState == "__init__"
LoadRegistry == "refresh_labs"
ProbeAvailability == "refresh_docker"
Reconcile == "verify_runtime_running_lab"

\* the start-up reconciliation notifies observers when it clears the claim
ReconcileNotifies ==
    (lastOp'.op = Reconcile /\ running_lab_id' # running_lab_id)
       => running_lab_id' = None /\ out'.running_changed = 1

\* operations performed once start-up is over
AfterStartup ==
    lastOp'.op \notin {LoadRuntimeState, LoadRegistry, ProbeAvailability, Reconcile, "exit"}
       => pc = "ready"

\* C20: start-up loads the registry, then loads the persisted runtime state,
\* then probes engine and compose, then reconciles, each step directly after
\* the one before it; reconciliation notifies observers when it clears the
\* claim.
C20_RegistryThenRuntime ==
    [][/\ lastOp'.op = LoadRuntimeState => lastOp.op = LoadRegistry
       /\ (lastOp'.op = ProbeAvailability /\ pc # "ready") => lastOp.op = LoadRuntimeState
       /\ lastOp'.op = Reconcile => lastOp.op = ProbeAvailability
       /\ ReconcileNotifies
       /\ AfterStartup
      ]_vars

\* C20 amended: start-up loads the persisted runtime state first (it is the
\* first step of the process), then the registry, then probes engine and
\* compose, then reconciles, each step directly after the one before it and
\* before any other operation; reconciliation notifies observers when it
\* clears the claim.
C20_RuntimeThenRegistry ==
    [][/\ lastOp'.op = LoadRuntimeState => pc = "off"
       /\ lastOp'.op = LoadRegistry => lastOp.op = LoadRuntimeState
       /\ (lastOp'.op = ProbeAvailability /\ pc # "ready") => lastOp.op = LoadRegistry
       /\ lastOp'.op = Reconcile => lastOp.op = ProbeAvailability /\ pc' = "ready"
       /\ ReconcileNotifies
       /\ AfterStartup
      ]_vars

\* start-up has run to its end and its reconciliation cleared a claim that
\* was persisted by an earlier process
C20_Witness ==
    /\ pc = "ready"
    /\ lastOp.op = Reconcile
    /\ lastOp.id # None
    /\ labs = discover_labs
    /\ docker_kind = "ok"
    /\ running_lab_id = None
    /\ out.running_changed = 1

\* ---------------------------------------------------------------- C21
\* Claimed-and-Stale: the application runs and holds a claim, engine and
\* compose answer, and the claimed lab has no container up
Stale ==
    /\ pc # "off"
    /\ running_lab_id # None
    /\ engine_answer(world)[1] /\ compose_answer(world)[1]
    /\ running_lab_id \notin world.up

\* C21: whenever the claim is stale, at start-up or later while the
\* application runs and its poll fires, the staleness eventually ends
\* (the claim is cleared).
C21_StaleEventuallyCleared == Stale ~> ~Stale

\* C21 amended: reconciliation is a start-up process.  A claim that is stale
\* while the application starts up stops being stale (it is cleared by the
\* reconciliation step unless the machine changes first); once start-up is
\* over the claim changes only when set_running_lab_id is called, whatever
\* the poll finds.
C21_StaleClearedAtStartup ==
    /\ (Stale /\ pc # "ready") ~> ~Stale
    /\ [][(pc = "ready" /\ pc' = "ready" /\ running_lab_id' # running_lab_id)
             => lastOp'.op = "set_running_lab_id"]_vars

\* start-up has cleared a claim for a lab that has no container up
C21_Witness ==
    /\ pc = "ready"
    /\ lastOp = Op("verify_runtime_running_lab", "sqli-101")
    /\ "sqli-101" \notin world.up
    /\ engine_answer(world)[1] /\ compose_answer(world)[1]
    /\ running_lab_id = None
    /\ runtime_file = RecordFile(None)

\* ---------------------------------------------------------------- C22
\* C22: when the process was killed during or after set_running_lab(new), a
\* later get_running_lab returns the running_lab_id persisted before that
\* call or new, never a third value.
C22_WriteIsAtomic ==
    (pc = "off" /\ lastOp.op = "set_running_lab" /\ ret # NoRet)
       => ret \in {Returned(lastOp.id[1]), Returned(lastOp.id[2])}

\* ---------------------------------------------------------------- C23
\* C23: the availability poll (refresh_docker fired by the timer once
\* start-up is over) changes only the cached status text and kind; the kind
\* is "ok" exactly when engine and compose are both available and "bad"
\* otherwise; the claim, the runtime file, progress, notes, the caches and
\* their dirty flags stay as they were; and the status it leaves depends on
\* the two probe answers alone, so a poll that meets the same answers as the
\* poll before it leaves the same status.
C23_PollReadOnly ==
    [][(pc = "ready" /\ lastOp'.op = "refresh_docker")
          => \A d \in DockerResults, c \in ComposeResults :
                refresh_docker(d, c)
                   => /\ docker_kind' = IF d[1] /\ c[1] THEN "ok" ELSE "bad"
                      /\ (docker_kind' = "ok") <=> (d[1] /\ c[1])
                      /\ docker_text' = docker_status(d, c).text
                      /\ UNCHANGED <<pc, labs, running_lab_id, runtime_file,
                                     progress, notes, progress_cache, progress_dirty,
                                     summary_cache, summary_dirty, notes_cache, clock>>
      ]_vars

\* the poll fired after a user operation and found compose unavailable
C23_Witness ==
    /\ pc = "ready"
    /\ lastOp.op = "refresh_docker"
    /\ clock > 1
    /\ docker_kind = "bad"
    /\ out.docker_changed = 1

\* ---------------------------------------------------------------- C24
\* C24: for every lab found in the registry and every submitted string,
\* submit_flag returns success exactly when flag_matches_sha256(submitted,
\* lab.flag_sha256) is true, and a success is the pair (True, ""); a wrong
\* flag (a non-empty submission against a configured hash that does not
\* match) is answered with the bare rejection (False, "").
C24_SubmitAgreesWithVerifier ==
    [][(lastOp'.op = "submit_flag")
          => \A lab \in labs, f \in Flags :
                (lab.id = lastOp'.id /\ submit_flag(lab.id, f))
                   => /\ (ret'[1] = TRUE) <=> flag_matches_sha256(f, lab.flag_sha256)
                      /\ flag_matches_sha256(f, lab.flag_sha256) => ret' = <<TRUE, "">>
                      /\ ( /\ strip(f) # <<>>
                           /\ strip(lab.flag_sha256) # <<>>
                           /\ ~flag_matches_sha256(f, lab.flag_sha256) )
                            => ret' = <<FALSE, "">>
      ]_vars

\* a wrong flag for a lab that has a hash was rejected without a message
C24_Witness ==
    /\ lastOp.op = "submit_flag"
    /\ \E lab \in labs : lab.id = lastOp.id /\ strip(lab.flag_sha256) # <<>>
    /\ ret = <<FALSE, "">>
    /\ out.progress_changed = 2

\* ---------------------------------------------------------------- C25
\* C25: for every integer xp, rank_for_xp returns the rank with the greatest
\* floor <= xp (the lowest rank when no floor is <= xp); the next rank and
\* next floor it returns are the table entry right after the returned rank,
\* and are None only when the returned rank is the last one; so
\* cur_floor <= xp < next_floor whenever xp >= 0 and a next rank exists, and
\* the returned floor is non-decreasing in xp.
floors_below(xp) == {i \in 1..Len(RANKS) : RANKS[i][2] <= xp}
greatest(S) == CHOOSE i \in S : \A j \in S : j <= i
C25_RankForXp ==
    (lastOp.op = "rank_for_xp")
       => LET xp == lastOp.id[1]
              k == IF floors_below(xp) = {} THEN 1 ELSE greatest(floors_below(xp))
          IN /\ ret[1] = RANKS[k][1]
             /\ ret[2] = RANKS[k][2]
             /\ IF k < Len(RANKS)
                THEN ret[3] = RANKS[k + 1][1] /\ ret[4] = RANKS[k + 1][2]
                ELSE ret[3] = None
             /\ (ret[3] = None) => ret[4] = None
             /\ (xp >= 0 /\ ret[3] # None) => (ret[2] <= xp /\ xp < ret[4])
             /\ \A y \in XpValues : y <= xp => rank_for_xp(y)[2] <= ret[2]

\* ---------------------------------------------------------------- C26
\* C26: when the claim loaded from the runtime record names a lab that is not
\* in the registry and engine and compose are both reachable, reconciliation
\* clears the claim in memory and in the record and emits running_changed
\* once, without any container status query; and in every state running()
\* returns a lab only if its id is in the registry, so a claim for an unknown
\* lab reads as no lab running.
C26_UnknownLabClaim ==
    /\ [][(pc = "docker" /\ running_lab_id # None
            /\ running_lab_id \notin {x.id : x \in labs})
             => \A d \in DockerResults, c \in ComposeResults, ps \in RunOutcomes :
                   (d[1] /\ c[1] /\ verify_runtime_running_lab(d, c, ps))
                      => /\ running_lab_id' = None
                         /\ get_running_lab(runtime_file') = Returned(None)
                         /\ out'.running_changed = 1
                         /\ out'.compose_ps = 0]_vars
    /\ [](/\ running(labs, running_lab_id) # <<>>
              => running(labs, running_lab_id)[1].id \in {x.id : x \in labs}
          /\ (running_lab_id \notin {x.id : x \in labs})
              => running(labs, running_lab_id) = <<>>)

\* a pass with everything reachable has cleared a claim for an unknown lab
C26_Witness ==
    /\ pc = "ready"
    /\ lastOp.op = "verify_runtime_running_lab"
    /\ lastOp.id = "ghost"
    /\ docker_kind = "ok"
    /\ running_lab_id = None
    /\ get_running_lab(runtime_file) = Returned(None)
    /\ out.running_changed = 1
    /\ out.compose_ps = 0

PushOps == {"sidebar_click", "navigate", "select_and_open_lab"}
C29_CodeSingleUse ==
    \A code \in 1..Len(idp.issued) :
       /\ Cardinality({g \in idp.grants : g[2] = code}) <= 1
       /\ \A g \in idp.grants : g[2] = code => g[3] <= idp.issued[code]

\* ---------------------------------------------------------------- C30
\* C30: for each client ip at most 3 login POSTs are admitted within any
\* 1-second window; a request that would be the 4th is denied and, unless
\* the ip is blocked already, starts a block of 5 seconds; every login POST
\* of that ip arriving less than 5 seconds after a block started is denied;
\* denied requests are not counted as hits; a block is never shortened by a
\* later ban.
C30_LoginRateLimit ==
    /\ [](\A ip \in Ips, s \in 0..MaxLoginNow :
             limiter.admitted[ip][s] + limiter.admitted[ip][s + 1] <= LOGIN_RATE_MAX)
    /\ [][\A ip \in Ips :
            /\ limiter'.login_blocked_until[ip] >= limiter.login_blocked_until[ip]
            /\ \A t \in Threads :
                  login_check(t, ip)
                     => /\ (limiter.now < limiter.block_started[ip] + LOGIN_BLOCK_SECONDS)
                             => limiter'.last = "denied"
                        /\ (Len(popleft_old(limiter.login_hits[ip],
                                            limiter.now - LOGIN_RATE_WINDOW_SEC))
                               >= LOGIN_RATE_MAX)
                             => /\ limiter'.last = "denied"
                                /\ limiter'.login_blocked_until[ip] > limiter.now
                                /\ (limiter.login_blocked_until[ip] <= limiter.now)
                                     => limiter'.login_blocked_until[ip]
                                           = limiter.now + LOGIN_BLOCK_SECONDS
                        /\ (limiter'.last = "denied")
                             => /\ Len(limiter'.login_hits[ip]) <= Len(limiter.login_hits[ip])
                                /\ limiter'.admitted = limiter.admitted]_vars

====
